---- MODULE Spec2Model ----
(***************************************************************************)
(* Model of transfer_money.rs: data::Account (a ledger of f32 entries),    *)
(* the MoneySource / MoneyDestination roles, the TransferMoney context     *)
(* and the caller of transfer_money_app.                                   *)
(*                                                                         *)
(* Amounts are f32 in the source.  The model carries integer-valued f32    *)
(* values as integers and rounds every f32 addition to the 24-bit          *)
(* significand of an f32 (round to nearest, ties to even), which is exact  *)
(* IEEE-754 behaviour for integer-valued operands of this magnitude.       *)
(* NaN, the infinities and fractional amounts are outside the model.       *)
(*                                                                         *)
(* last, opening and transfersOnly are history variables: the operation    *)
(* that produced the current state, the ledgers the accounts were created  *)
(* with, and whether the run so far consists of transfers of non-negative  *)
(* amounts only.                                                           *)
(***************************************************************************)
EXTENDS Integers, Sequences, FiniteSets

VARIABLES ledger, context, last, opening, transfersOnly

vars == <<ledger, context, last, opening, transfersOnly>>

hist == <<opening, transfersOnly>>

\* ------------------------------------------------------------------ bounds

\* Longest ledger the model lets an account grow to.
MaxLen == 3

\* ------------------------------------------------------------- f32 numbers

\* Significand width of an f32 (the type of ledger entries and amounts).
F32Digits == 24

RECURSIVE Pow2(_)
Pow2(n) == IF n = 0 THEN 1 ELSE 2 * Pow2(n - 1)

\* Smallest magnitude from which odd integers stop being representable.
F32Big == Pow2(F32Digits)

\* An f32 whose neighbours are 64 apart (2^29).
F32Large == 32 * F32Big

Abs(x) == IF x < 0 THEN -x ELSE x

\* Spacing of f32 values around the integer x: 1 below 2^24, then doubling.
RECURSIVE F32Ulp(_, _)
F32Ulp(m, u) == IF m < F32Big * u THEN u ELSE F32Ulp(m, 2 * u)

\* The f32 nearest to the integer x, ties to the even significand.
RoundF32(x) ==
    LET m == Abs(x)
        u == F32Ulp(m, 1)
        q == m \div u
        r == m % u
        up == IF 2 * r < u THEN 0
              ELSE IF 2 * r > u THEN 1
              ELSE q % 2
        v == (q + up) * u
    IN  IF x < 0 THEN -v ELSE v

\* a + b on f32 operands.
F32Add(a, b) == RoundF32(a + b)

\* -a on an f32 operand (exact).
F32Neg(a) == 0 - a

\* ---------------------------------------------------------------- data

Accounts == {"an_account", "another_account"}

\* Amounts the caller passes to TransferMoney::new and to the role methods.
Amounts == {-200, 0, 200}

\* Ledgers the caller constructs accounts with.
SeedLedgers ==
    { [an_account |-> <<1000>>, another_account |-> <<100>>],
      [an_account |-> <<50>>,   another_account |-> <<0>>],
      [an_account |-> <<F32Large>>, another_account |-> <<>>] }

NoContext == [live |-> FALSE]

\* Account::current_balance: ledger.iter().fold(0_f32, |a, b| a + b)
RECURSIVE Fold(_, _)
Fold(acc, l) == IF l = <<>> THEN acc ELSE Fold(F32Add(acc, Head(l)), Tail(l))

current_balance(l) == Fold(0, l)

\* ---------------------------------------------------------------- roles
\* A role method works on st = [ledger, calls]: the ledgers of all accounts
\* and the trace of requirement-method calls made so far by the operation.

Called(st, method, account, amount) ==
    Append(st.calls, [method |-> method, account |-> account, amount |-> amount])

\* impl MoneySourceRoleRequirement for data::Account
available_balance(l) == current_balance(l)

\* Variant of decrease_balance that nets the debit into the newest entry
\* instead of pushing a new one.
decrease_balance_netting(st, account, amount) ==
    LET l == st.ledger[account]
        netted == IF l = <<>> THEN <<F32Neg(amount)>>
                  ELSE [l EXCEPT ![Len(l)] = F32Add(@, F32Neg(amount))]
    IN  [ledger |-> [st.ledger EXCEPT ![account] = netted],
         calls  |-> Called(st, "decrease_balance", account, amount)]

decrease_balance(st, account, amount) ==
    [ledger |-> [st.ledger EXCEPT ![account] = Append(@, F32Neg(amount))],
     calls  |-> Called(st, "decrease_balance", account, amount)]

\* impl MoneyDestinationRoleRequirement for data::Account
increase_balance(st, account, amount) ==
    [ledger |-> [st.ledger EXCEPT ![account] = Append(@, amount)],
     calls  |-> Called(st, "increase_balance", account, amount)]

\* MoneyDestinationRoleMethods::receive_transfer
receive_transfer(st, sink, amount) == increase_balance(st, sink, amount)

\* Variant of send_transfer that debits and credits without the balance check.
send_transfer_unchecked(st, self, amount, sink) ==
    LET asked == [st EXCEPT !.calls = Called(st, "available_balance", self, 0)]
    IN  receive_transfer(decrease_balance(asked, self, amount), sink, amount)

\* Variant of send_transfer whose check is > instead of >=.
send_transfer_strict(st, self, amount, sink) ==
    LET asked == [st EXCEPT !.calls = Called(st, "available_balance", self, 0)]
    IN  IF available_balance(st.ledger[self]) > amount
        THEN receive_transfer(decrease_balance(asked, self, amount), sink, amount)
        ELSE asked

\* Variant of send_transfer that credits the sink before debiting self.
send_transfer_credit_first(st, self, amount, sink) ==
    LET asked == [st EXCEPT !.calls = Called(st, "available_balance", self, 0)]
    IN  IF available_balance(st.ledger[self]) >= amount
        THEN decrease_balance(receive_transfer(asked, sink, amount), self, amount)
        ELSE asked

\* MoneySourceRoleMethods::send_transfer
send_transfer(st, self, amount, sink) ==
    LET asked == [st EXCEPT !.calls = Called(st, "available_balance", self, 0)]
    IN  IF available_balance(st.ledger[self]) >= amount
        THEN receive_transfer(decrease_balance(asked, self, amount), sink, amount)
        ELSE asked

\* TransferMoney::execute
execute(st, ctx) == send_transfer(st, ctx.source, ctx.amount, ctx.destination)

\* ---------------------------------------------------------------- state

Start(L) == [ledger |-> L, calls |-> <<>>]

Record(op, src, dst, amount, st) ==
    [op |-> op, source |-> src, destination |-> dst, amount |-> amount,
     before |-> ledger, calls |-> st.calls]

\* An account is free when no live TransferMoney holds its &mut borrow.
Borrowed(a) == context.live /\ a \in {context.source, context.destination}

Room(a) == Len(ledger[a]) < MaxLen

Init ==
    /\ ledger \in SeedLedgers
    /\ context = NoContext
    /\ last = [op |-> "seed", source |-> "an_account",
               destination |-> "another_account", amount |-> 0,
               before |-> ledger, calls |-> <<>>]
    /\ opening = ledger
    /\ transfersOnly = TRUE

\* Variant of New that lets one account play both roles.
New_aliasing(src, dst, amount) ==
    /\ ~context.live
    /\ context' = [live |-> TRUE, source |-> src, destination |-> dst,
                   amount |-> amount]
    /\ last' = [op |-> "new", source |-> src, destination |-> dst,
                amount |-> amount, before |-> ledger, calls |-> <<>>]
    /\ transfersOnly' = (transfersOnly /\ amount >= 0)
    /\ UNCHANGED <<ledger, opening>>

\* TransferMoney::new: takes two exclusive (&mut) borrows, so the two
\* accounts are different objects; the amount is stored unchecked.
New(src, dst, amount) ==
    /\ ~context.live
    /\ src # dst
    /\ context' = [live |-> TRUE, source |-> src, destination |-> dst,
                   amount |-> amount]
    /\ last' = Record("new", src, dst, amount, Start(ledger))
    /\ transfersOnly' = (transfersOnly /\ amount >= 0)
    /\ UNCHANGED <<ledger, opening>>

\* context.execute()
Execute ==
    /\ context.live
    /\ Room(context.source) /\ Room(context.destination)
    /\ LET st == execute(Start(ledger), context)
       IN  /\ ledger' = st.ledger
           /\ last' = Record("execute", context.source, context.destination,
                             context.amount, st)
    /\ UNCHANGED <<context, hist>>

\* End of the scope that holds the TransferMoney: the borrows are returned.
Drop ==
    /\ context.live
    /\ context' = NoContext
    /\ last' = Record("drop", context.source, context.destination,
                      context.amount, Start(ledger))
    /\ UNCHANGED <<ledger, hist>>

\* Direct call of account.decrease_balance(amount) by the caller.
DecreaseBalance(a, amount) ==
    /\ ~Borrowed(a)
    /\ Room(a)
    /\ LET st == decrease_balance(Start(ledger), a, amount)
       IN  /\ ledger' = st.ledger
           /\ last' = Record("decrease_balance", a, a, amount, st)
    /\ transfersOnly' = FALSE
    /\ UNCHANGED <<context, opening>>

\* Direct call of account.increase_balance(amount) by the caller.
IncreaseBalance(a, amount) ==
    /\ ~Borrowed(a)
    /\ Room(a)
    /\ LET st == increase_balance(Start(ledger), a, amount)
       IN  /\ ledger' = st.ledger
           /\ last' = Record("increase_balance", a, a, amount, st)
    /\ transfersOnly' = FALSE
    /\ UNCHANGED <<context, opening>>

\* account.current_balance(), as printed by the caller.
CurrentBalance(a) ==
    /\ ~Borrowed(a)
    /\ last' = Record("current_balance", a, a, current_balance(ledger[a]),
                      Start(ledger))
    /\ UNCHANGED <<ledger, context, hist>>

Next ==
    \/ \E s \in Accounts, d \in Accounts, m \in Amounts : New(s, d, m)
    \/ Execute
    \/ Drop
    \/ \E a \in Accounts, m \in Amounts : DecreaseBalance(a, m)
    \/ \E a \in Accounts, m \in Amounts : IncreaseBalance(a, m)
    \/ \E a \in Accounts : CurrentBalance(a)

Spec == Init /\ [][Next]_vars

\* ---------------------------------------------------------------- claims

IsPrefix(s, t) == Len(s) <= Len(t) /\ SubSeq(t, 1, Len(s)) = s

\* Sum of the entries in unbounded (exact) arithmetic.
RECURSIVE ExactSum(_)
ExactSum(l) == IF l = <<>> THEN 0 ELSE Head(l) + ExactSum(Tail(l))

\* Every reordering of the ledger l.
Reorderings(l) ==
    LET n == Len(l)
        bijections == {p \in [1..n -> 1..n] : \A i, j \in 1..n : p[i] = p[j] => i = j}
    IN  {[i \in 1..n |-> l[p[i]]] : p \in bijections}

BalanceBefore(a) == current_balance(last.before[a])
BalanceNow(a) == current_balance(ledger[a])

Executed == last.op = "execute"

AskedOnly ==
    <<[method |-> "available_balance", account |-> last.source, amount |-> 0]>>

AskedDebitedCredited ==
    <<[method |-> "available_balance", account |-> last.source, amount |-> 0],
      [method |-> "decrease_balance", account |-> last.source, amount |-> last.amount],
      [method |-> "increase_balance", account |-> last.destination, amount |-> last.amount]>>

\* C1: after an execute whose amount is <= the source's balance, the source's
\* balance is lower by exactly the amount, the destination's is higher by
\* exactly the amount, and the sum of the two balances is unchanged.
C1_Conservation ==
    (Executed /\ last.source # last.destination
              /\ last.amount <= BalanceBefore(last.source)) =>
        /\ BalanceNow(last.source) = BalanceBefore(last.source) - last.amount
        /\ BalanceNow(last.destination) = BalanceBefore(last.destination) + last.amount
        /\ BalanceNow(last.source) + BalanceNow(last.destination)
             = BalanceBefore(last.source) + BalanceBefore(last.destination)

\* C2: an execute whose amount exceeds the source's balance only asks for the
\* balance and leaves every ledger exactly as it was (no debit, no credit).
C2_InsufficientFundsNoOp ==
    (Executed /\ last.amount > BalanceBefore(last.source)) =>
        /\ ledger = last.before
        /\ last.calls = AskedOnly

C2_Witness ==
    /\ Executed
    /\ last.amount > BalanceBefore(last.source)
    /\ Len(last.before[last.source]) > 0

\* C3: every step leaves each ledger as a prefix of its next value, and a
\* current_balance call leaves every ledger as it is.
C3_AppendOnly ==
    [][ /\ \A a \in Accounts : IsPrefix(ledger[a], ledger'[a])
        /\ last'.op = "current_balance" => ledger' = ledger ]_vars

C3_Witness ==
    /\ last.op \in {"execute", "decrease_balance", "increase_balance"}
    /\ \E a \in Accounts : Len(ledger[a]) > Len(last.before[a])
    /\ \E a \in Accounts : Len(last.before[a]) > Len(opening[a])

\* C4 (as claimed): with no transfer in progress, a transfer from an account to
\* itself of an amount within its balance can be constructed.
C4_SelfTransferAccepted ==
    \A a \in Accounts, m \in Amounts :
        (~context.live /\ m <= BalanceNow(a)) => ENABLED New(a, a, m)

\* C4 (amended): a TransferMoney always holds two different accounts, and an
\* execute that passes the check appends exactly one entry to each of the two
\* ledgers: -amount to the source's, +amount to the destination's.
C4_TransferAccountsDistinct ==
    /\ context.live => context.source # context.destination
    /\ Executed =>
        /\ last.source # last.destination
        /\ \A a \in Accounts : Len(ledger[a]) - Len(last.before[a]) \in {0, 1}
        /\ last.amount <= BalanceBefore(last.source) =>
             /\ ledger[last.source] = Append(last.before[last.source], 0 - last.amount)
             /\ ledger[last.destination] = Append(last.before[last.destination], last.amount)

C4_Witness ==
    /\ Executed
    /\ last.amount <= BalanceBefore(last.source)
    /\ Len(ledger[last.source]) = Len(last.before[last.source]) + 1
    /\ Len(ledger[last.destination]) = Len(last.before[last.destination]) + 1

ZeroTransferApplied ==
    /\ ledger[last.source] = Append(last.before[last.source], 0)
    /\ ledger[last.destination] = Append(last.before[last.destination], 0)
    /\ \A a \in Accounts : BalanceNow(a) = BalanceBefore(a)

\* C5 (as claimed): an execute with amount 0 always appends a 0 entry to the
\* source's and to the destination's ledger and changes no balance.
C5_ZeroAlwaysPasses ==
    (Executed /\ last.amount = 0) => ZeroTransferApplied

\* C5 (amended): an execute with amount 0 from a source whose balance is >= 0
\* appends a 0 entry to both ledgers and changes no balance.
C5_ZeroPassesWithoutDebt ==
    (Executed /\ last.amount = 0 /\ BalanceBefore(last.source) >= 0) =>
        ZeroTransferApplied

C5_Witness ==
    /\ Executed
    /\ last.amount = 0
    /\ BalanceBefore(last.source) = 0
    /\ Len(ledger[last.source]) = Len(last.before[last.source]) + 1

\* C6: the balance of every ledger is the arithmetic sum of its entries, is
\* the same for every reordering of them, is 0 for the empty ledger, and is
\* what available_balance returns.
C6_BalanceIsSum ==
    /\ current_balance(<<>>) = 0
    /\ \A a \in Accounts :
        /\ current_balance(ledger[a]) = ExactSum(ledger[a])
        /\ \A p \in Reorderings(ledger[a]) :
               current_balance(p) = current_balance(ledger[a])
        /\ available_balance(ledger[a]) = current_balance(ledger[a])

\* C7: a direct decrease_balance appends exactly the entry -amount, whatever
\* the balance, and the balance drops by the amount.
C7_DecreaseUnconditional ==
    last.op = "decrease_balance" =>
        /\ ledger[last.source] = Append(last.before[last.source], 0 - last.amount)
        /\ BalanceNow(last.source) = BalanceBefore(last.source) - last.amount

\* C8: an execute calls available_balance on the source and then either
\* nothing more, or decrease_balance on the source followed by
\* increase_balance on the destination; the source's ledger and the
\* destination's grow by the same number of entries, 0 or 1.
C8_CoupledOrderedPair ==
    Executed =>
        LET debits  == Len(ledger[last.source]) - Len(last.before[last.source])
            credits == Len(ledger[last.destination])
                         - Len(last.before[last.destination])
        IN  /\ last.calls \in {AskedOnly, AskedDebitedCredited}
            /\ debits = credits
            /\ debits = (IF last.calls = AskedOnly THEN 0 ELSE 1)
            /\ debits = 1 =>
                 /\ ledger[last.source][Len(ledger[last.source])] = 0 - last.amount
                 /\ ledger[last.destination][Len(ledger[last.destination])]
                      = last.amount

C8_Witness ==
    /\ Executed
    /\ last.calls = AskedDebitedCredited
    /\ Len(ledger[last.destination]) = Len(last.before[last.destination]) + 1

\* C9: while only transfers of non-negative amounts have run on accounts that
\* started non-negative, no balance is negative and the balances add up to
\* what they added up to at the start.
C9_NoOverdraftConserved ==
    transfersOnly =>
        /\ \A a \in Accounts : BalanceNow(a) >= 0
        /\ BalanceNow("an_account") + BalanceNow("another_account")
             = current_balance(opening["an_account"])
               + current_balance(opening["another_account"])

\* C10: after an execute, whatever its amount, the source's balance is not
\* higher and the destination's balance is not lower than before.
C10_ValueFlowsForward ==
    Executed =>
        /\ BalanceNow(last.source) <= BalanceBefore(last.source)
        /\ BalanceNow(last.destination) >= BalanceBefore(last.destination)

====
